---- MODULE Spec2Model ----
(***************************************************************************)
(* Model of the script execution service (app/api_server.py) and of the    *)
(* standalone executor (app/script_executor.py).                           *)
(*                                                                         *)
(* Text (file names, paths, captured output, messages) is a sequence of    *)
(* characters, so that suffix tests, path joins and message formatting are *)
(* computed, not assumed.  A path on disk is identified by its normalised  *)
(* sequence of components.                                                 *)
(***************************************************************************)
EXTENDS Naturals, Sequences, FiniteSets, TLC

\* ------------------------------------------------------------------ bounds
NumRequests == 2

Req == 1..NumRequests

\* ------------------------------------------------------------ text helpers
PySuffix == <<".", "p", "y">>
ScriptName == <<"s", "c", "r", "i", "p", "t", ".", "p", "y">>
NotFoundPrefix == <<"Script not found: ">>

\* Optional[str]
NoneVal == [some |-> FALSE]
Some(v) == [some |-> TRUE, val |-> v]

\* A substring test in place of the suffix test: it accepts a.py.txt
ContainsText(s, suf) ==
    \E i \in 1..Len(s) :
        i + Len(suf) - 1 <= Len(s) /\ SubSeq(s, i, i + Len(suf) - 1) = suf

\* str.endswith(suffix): exact, case-sensitive
EndsWith(s, suf) ==
    /\ Len(s) >= Len(suf)
    /\ SubSeq(s, Len(s) - Len(suf) + 1, Len(s)) = suf

\* ------------------------------------------------------------ path helpers
RECURSIVE SplitFrom(_, _)
SplitFrom(p, cur) ==
    IF p = <<>> THEN <<cur>>
    ELSE IF Head(p) = "/" THEN <<cur>> \o SplitFrom(Tail(p), <<>>)
    ELSE SplitFrom(Tail(p), Append(cur, Head(p)))

Front(s) == SubSeq(s, 1, Len(s) - 1)

RECURSIVE Norm(_, _)
Norm(comps, acc) ==
    IF comps = <<>> THEN acc
    ELSE LET c == Head(comps) IN
         IF c = <<>> \/ c = <<".">> THEN Norm(Tail(comps), acc)
         ELSE IF c = <<".", ".">>
              THEN Norm(Tail(comps), IF acc = <<>> THEN acc ELSE Front(acc))
         ELSE Norm(Tail(comps), Append(acc, c))

\* The file-system entry an absolute path text names: its components, with
\* empty and "." components dropped and ".." resolved against its parent.
Resolve(p) == Norm(SplitFrom(p, <<>>), <<>>)

\* pathlib's Path(dir) / name: an absolute right operand replaces the left one
JoinPath(dir, name) ==
    IF name # <<>> /\ Head(name) = "/" THEN name ELSE dir \o <<"/">> \o name

IsPrefix(a, b) == Len(a) <= Len(b) /\ SubSeq(b, 1, Len(a)) = a

\* ------------------------------------------------------------ inputs
\* Upload file names: accepted ones (plain, absolute, in a subdirectory that
\* does not exist) and rejected ones (wrong case, wrong suffix).
Filenames ==
    { <<"a", ".", "p", "y">>,
      <<"/", "x", ".", "p", "y">>,
      <<"s", "/", "a", ".", "p", "y">>,
      <<"a", ".", "P", "Y">>,
      <<"a", ".", "p", "y", ".", "t", "x", "t">>,
      <<"a", ".", "t", "x", "t">> }

\* The system temporary directory and the names mkdtemp may draw: as many
\* as there are requests, so that a fresh name always exists
TmpRoot == <<"/", "t">>
DirChars == <<"1", "2", "3", "4", "5">>
DirNames == { TmpRoot \o <<"/", DirChars[i]>> : i \in 1..NumRequests }

\* What a child interpreter may produce
ExitCodes == {0, 1}
Outs == { <<>>, <<"o">> }
Errs == { <<>>, <<"e">> }

VARIABLES
    kind,        \* request -> "none" | "code" | "file" | "health" | "direct"
    filename,    \* request -> the upload's file name as sent (text)
    pc,          \* request -> position of its handler
    \* the handler's locals, gone once it has returned:
    temp_dir,    \* request -> Optional text: the directory the call allocated
    temp_path,   \* request -> Optional text: temp_path / script_path
    result,      \* request -> what execute_script returned or raised
    trace,       \* request -> the steps the running call has taken, in order
    response,    \* request -> what the caller got
    loop,        \* the request whose handler runs on the event loop, or 0
    dirs,        \* resolved paths of the temporary directories that exist
    files,       \* resolved path -> the request that wrote the file (0: other)
    child,       \* the child interpreter processes that exist
    cli          \* last call of the standalone execute_script

vars == <<kind, filename, pc, temp_dir, temp_path, result, response, trace,
          loop, dirs, files, child, cli>>

\* ------------------------------------------------------------ file system
StaticDirs == { <<>>, Resolve(TmpRoot) }

IsDir(c) == c \in dirs \/ c \in StaticDirs

\* Path.exists(): anything at all at the path (file or directory)
Exists(path) ==
    LET c == Resolve(path) IN IsDir(c) \/ c \in DOMAIN files

\* open(temp_path, 'w' / 'wb') can create or truncate the file
CanOpen(path) ==
    LET c == Resolve(path) IN c # <<>> /\ IsDir(Front(c)) /\ ~IsDir(c)

WriteFile(path, r) ==
    LET c == Resolve(path) IN
    [q \in DOMAIN files \cup {c} |-> IF q = c THEN r ELSE files[q]]

\* shutil.rmtree: the files left when only the directories ds remain
FilesLeft(ds) ==
    [q \in {x \in DOMAIN files : \A d \in dirs \ ds : ~IsPrefix(d, x)} |-> files[q]]

\* Cleanup written after the call instead of a with-block: it runs on a
\* normal return only
WithExitOnReturnOnly(r, raised) ==
    IF temp_dir[r].some /\ ~raised
    THEN dirs \ {Resolve(temp_dir[r].val)} ELSE dirs

\* tempfile.TemporaryDirectory.__exit__: the directories left once request
\* r has left its with-block, by return or by exception
WithExit(r, raised) ==
    IF temp_dir[r].some THEN dirs \ {Resolve(temp_dir[r].val)} ELSE dirs

\* ------------------------------------------------------------ results
ExecutionResponse(s, o, e) == [success |-> s, output |-> o, error |-> e]

Returned(v) == [raised |-> FALSE, value |-> v]
Raised == [raised |-> TRUE, value |-> NoneVal]
NoResult == [raised |-> FALSE, value |-> NoneVal]

FaultText(what) == <<"fault: ", what>>

\* The message without the path
NotFoundMessageNoPath(script_path) == NotFoundPrefix

\* f"Script not found: {script_path}"
NotFoundMessage(script_path) == NotFoundPrefix \o script_path

\* A classification that keeps the output of a failed run as well
ClassifyBoth(rc, out, err) ==
    IF rc = 0 THEN ExecutionResponse(TRUE, Some(out), NoneVal)
    ELSE ExecutionResponse(FALSE, Some(out), Some(err))

\* A classification that reports the error stream of a successful run
ClassifySwapped(rc, out, err) ==
    IF rc = 0 THEN ExecutionResponse(TRUE, Some(err), NoneVal)
    ELSE ExecutionResponse(FALSE, NoneVal, Some(err))

\* api_server.execute_script, lines 79-90: classify by result.returncode
Classify(rc, out, err) ==
    IF rc = 0 THEN ExecutionResponse(TRUE, Some(out), NoneVal)
    ELSE ExecutionResponse(FALSE, NoneVal, Some(err))

\* An except clause that logs and re-raises
OnFaultReraise(what) == Raised

\* api_server.execute_script, lines 92-97: except Exception as e
OnFault(what) == Returned(ExecutionResponse(FALSE, NoneVal, Some(FaultText(what))))

\* ------------------------------------------------------------ responses
NoResponse == [status |-> 0, body |-> NoneVal]
Reply(code, b) == [status |-> code, body |-> b]
Detail(text) == [detail |-> text]

\* ------------------------------------------------------------ event loop
\* Request r's handler may take its next step: it is the one running, or the
\* loop is idle and r waits at a point where the loop picks it up.
CanRun(r) ==
    \/ loop = r
    \/ loop = 0 /\ pc[r] \in {"new", "reading"}

\* The child awaited off the loop (asyncio.create_subprocess_exec)
LoopAfterSpawnAwaited(r) == 0

\* subprocess.run is a blocking call: the handler keeps the event loop
LoopAfterSpawn(r) == r

\* A child started with Popen and read without being waited for
ChildFinishedNoWait(c) == TRUE

\* subprocess.run returns only once the child has terminated
ChildFinished(c) == c.st = "exited"

Log(r, ev) == [trace EXCEPT ![r] = Append(@, ev)]

\* A child process: whose call spawned it, which file content it runs, and,
\* once it has terminated, its exit code and the two captured streams.
Running(r, script) ==
    [req |-> r, script |-> script, st |-> "running", rc |-> 0, out |-> <<>>, err |-> <<>>]

ChildOf(r) == {c \in child : c.req = r}

\* What one call of subprocess.run may do: raise before a child exists, raise
\* while collecting, or return a CompletedProcess; "check_fault" stands for a
\* fault raised earlier, by the existence check.
Fault(k) == [kind |-> k, rc |-> 0, out |-> <<>>, err |-> <<>>]
Completed(rc, out, err) == [kind |-> "completed", rc |-> rc, out |-> out, err |-> err]
RunOutcomes ==
    {Fault(k) : k \in {"check_fault", "spawn_fault", "collect_fault"}}
    \cup {Completed(rc, out, err) : rc \in ExitCodes, out \in Outs, err \in Errs}

\* Paths handed to execute_script by a direct caller: a file that may exist,
\* a directory, a temporary directory that may exist, nothing at all.
XPath == <<"/", "x", ".", "p", "y">>
NPath == <<"/", "n", ".", "p", "y">>
DPath == TmpRoot \o <<"/", DirChars[1]>>
DirectPaths == { XPath, TmpRoot, DPath, NPath }

NoCli == [called |-> FALSE, path |-> <<>>, exists |-> FALSE, run |-> Fault("none"),
          api |-> NoResult, ret |-> NoResult]

\* ------------------------------------------------------------ initial state
Init ==
    /\ kind = [r \in Req |-> "none"]
    /\ filename = [r \in Req |-> <<>>]
    /\ pc = [r \in Req |-> "new"]
    /\ temp_dir = [r \in Req |-> NoneVal]
    /\ temp_path = [r \in Req |-> NoneVal]
    /\ result = [r \in Req |-> NoResult]
    /\ response = [r \in Req |-> NoResponse]
    /\ trace = [r \in Req |-> <<>>]
    /\ loop = 0
    /\ dirs = {}
    /\ files = <<>>
    /\ child = {}
    /\ cli = NoCli

\* ------------------------------------------------------------ POST /execute
\* lines 105-106: the directory is allocated and temp_path computed; the
\* handler runs on to the write without an await.
CodeBegin(r) ==
    /\ pc[r] = "new" /\ CanRun(r)
    /\ \E d \in DirNames :
        /\ Resolve(d) \notin dirs
        /\ dirs' = dirs \cup {Resolve(d)}
        /\ temp_dir' = [temp_dir EXCEPT ![r] = Some(d)]
        /\ temp_path' = [temp_path EXCEPT ![r] = Some(JoinPath(d, ScriptName))]
    /\ kind' = [kind EXCEPT ![r] = "code"]
    /\ pc' = [pc EXCEPT ![r] = "staging"]
    /\ loop' = r
    /\ trace' = Log(r, "mkdtemp")
    /\ UNCHANGED <<filename, result, response, files, child, cli>>

\* tempfile.TemporaryDirectory() itself raises (no usable temporary
\* directory): nothing was allocated and the exception leaves the handler.
TempDirFails(r, k, fn) ==
    /\ pc[r] = "new" /\ CanRun(r)
    /\ IF k = "file" THEN EndsWith(fn, PySuffix) ELSE fn = <<>>
    /\ kind' = [kind EXCEPT ![r] = k]
    /\ filename' = [filename EXCEPT ![r] = fn]
    /\ pc' = [pc EXCEPT ![r] = "done"]
    /\ response' = [response EXCEPT ![r] = Reply(500, Detail("Internal Server Error"))]
    /\ loop' = 0
    /\ UNCHANGED <<temp_dir, temp_path, result, trace, dirs, files, child, cli>>

\* The try block around open/write: the script file is written and closed,
\* or the write raises, the handler answers 500 with failDetail and the
\* with-block is left by the exception.
Stage(r, ok, failDetail) ==
    /\ CanRun(r)
    /\ IF ok /\ CanOpen(temp_path[r].val)
       THEN /\ files' = WriteFile(temp_path[r].val, r)
            /\ pc' = [pc EXCEPT ![r] = "exec"]
            /\ loop' = r
            /\ trace' = Log(r, "write")
            /\ UNCHANGED <<dirs, response, temp_dir, temp_path>>
       ELSE /\ dirs' = WithExit(r, TRUE)
            /\ files' = FilesLeft(dirs')
            /\ pc' = [pc EXCEPT ![r] = "done"]
            /\ loop' = 0
            /\ response' = [response EXCEPT ![r] = Reply(500, Detail(failDetail))]
            /\ trace' = [trace EXCEPT ![r] = <<>>]
            /\ temp_dir' = [temp_dir EXCEPT ![r] = NoneVal]
            /\ temp_path' = [temp_path EXCEPT ![r] = NoneVal]
    /\ UNCHANGED <<kind, filename, result, child, cli>>

\* execute_script has returned (or raised) and the handler returns: the
\* with-block is left, the temporary directory removed, the caller answered.
ReturnResult(r) ==
    /\ CanRun(r)
    /\ dirs' = WithExit(r, result[r].raised)
    /\ files' = FilesLeft(dirs')
    /\ response' = [response EXCEPT ![r] =
           IF result[r].raised THEN Reply(500, Detail("Internal Server Error"))
           ELSE Reply(200, result[r].value)]
    /\ pc' = [pc EXCEPT ![r] = "done"]
    /\ loop' = 0
    /\ trace' = [trace EXCEPT ![r] = <<>>]
    /\ temp_dir' = [temp_dir EXCEPT ![r] = NoneVal]
    /\ temp_path' = [temp_path EXCEPT ![r] = NoneVal]
    /\ result' = [result EXCEPT ![r] = NoResult]
    /\ UNCHANGED <<kind, filename, child, cli>>

\* lines 109-117: the code is written to script.py
CodeWrite(r, ok) ==
    /\ pc[r] = "staging"
    /\ Stage(r, ok, "Failed to process code")

\* lines 120-121
CodeReturn(r) ==
    /\ pc[r] = "returning" /\ kind[r] = "code"
    /\ ReturnResult(r)

\* ------------------------------------------------------- POST /execute-file
\* lines 128-132: the suffix test; a failing name is answered 400 at once
FileReject(r, fn) ==
    /\ pc[r] = "new" /\ CanRun(r)
    /\ ~EndsWith(fn, PySuffix)
    /\ kind' = [kind EXCEPT ![r] = "file"]
    /\ filename' = [filename EXCEPT ![r] = fn]
    /\ pc' = [pc EXCEPT ![r] = "done"]
    /\ response' = [response EXCEPT ![r] =
           Reply(400, Detail("Only Python files (.py) are allowed"))]
    /\ loop' = 0
    /\ UNCHANGED <<temp_dir, temp_path, result, trace, dirs, files, child, cli>>

\* lines 135-140: the directory is allocated, temp_path computed, and the
\* handler awaits script.read(): the event loop is free meanwhile.
FileBegin(r, fn) ==
    /\ pc[r] = "new" /\ CanRun(r)
    /\ EndsWith(fn, PySuffix)
    /\ \E d \in DirNames :
        /\ Resolve(d) \notin dirs
        /\ dirs' = dirs \cup {Resolve(d)}
        /\ temp_dir' = [temp_dir EXCEPT ![r] = Some(d)]
        /\ temp_path' = [temp_path EXCEPT ![r] = Some(JoinPath(d, fn))]
    /\ kind' = [kind EXCEPT ![r] = "file"]
    /\ filename' = [filename EXCEPT ![r] = fn]
    /\ pc' = [pc EXCEPT ![r] = "reading"]
    /\ loop' = 0
    /\ trace' = Log(r, "mkdtemp")
    /\ UNCHANGED <<result, response, files, child, cli>>

\* lines 139-148: script.read() has completed and the bytes are written
FileWrite(r, ok) ==
    /\ pc[r] = "reading"
    /\ Stage(r, ok, "Failed to process uploaded file")

\* lines 151-152
FileReturn(r) ==
    /\ pc[r] = "returning" /\ kind[r] = "file"
    /\ ReturnResult(r)

\* ------------------------------------------------------------ GET /health
\* lines 154-157
HealthCheck(r) ==
    /\ pc[r] = "new" /\ CanRun(r)
    /\ kind' = [kind EXCEPT ![r] = "health"]
    /\ pc' = [pc EXCEPT ![r] = "done"]
    /\ response' = [response EXCEPT ![r] = Reply(200, Detail("healthy"))]
    /\ loop' = 0
    /\ UNCHANGED <<filename, temp_dir, temp_path, result, trace, dirs, files, child, cli>>

\* ----------------------------------------------- api_server.execute_script
\* lines 62-69: Path(script_path).exists(); the check may itself raise
ExecCheck(r, fault) ==
    /\ pc[r] = "exec" /\ CanRun(r)
    /\ IF fault
       THEN /\ result' = [result EXCEPT ![r] = OnFault("check")]
            /\ pc' = [pc EXCEPT ![r] = "returning"]
            /\ trace' = Log(r, "check_fault")
       ELSE IF ~Exists(temp_path[r].val)
       THEN /\ result' = [result EXCEPT ![r] = Returned(
                   ExecutionResponse(FALSE, NoneVal, Some(NotFoundMessage(temp_path[r].val))))]
            /\ pc' = [pc EXCEPT ![r] = "returning"]
            /\ trace' = Log(r, "not_found")
       ELSE /\ pc' = [pc EXCEPT ![r] = "spawning"]
            /\ trace' = Log(r, "found")
            /\ UNCHANGED result
    /\ UNCHANGED <<kind, filename, temp_dir, temp_path, response, loop, dirs, files, child, cli>>

\* lines 73-77: subprocess.run starts the child, or raises before any child
\* exists (interpreter missing, permission denied)
ExecSpawn(r, ok) ==
    /\ pc[r] = "spawning" /\ CanRun(r)
    /\ IF ok
       THEN /\ child' = child \cup
                  {Running(r, IF Resolve(temp_path[r].val) \in DOMAIN files
                              THEN files[Resolve(temp_path[r].val)] ELSE 0)}
            /\ pc' = [pc EXCEPT ![r] = "waiting"]
            /\ loop' = LoopAfterSpawn(r)
            /\ trace' = Log(r, "spawn")
            /\ UNCHANGED result
       ELSE /\ result' = [result EXCEPT ![r] = OnFault("spawn")]
            /\ pc' = [pc EXCEPT ![r] = "returning"]
            /\ trace' = Log(r, "spawn_fault")
            /\ UNCHANGED <<child, loop>>
    /\ UNCHANGED <<kind, filename, temp_dir, temp_path, response, dirs, files, cli>>

\* The child interpreter terminates with an exit code and its two streams
ChildExit(c, rc, out, err) ==
    /\ c \in child /\ c.st = "running"
    /\ child' = (child \ {c}) \cup
           {[c EXCEPT !.st = "exited", !.rc = rc, !.out = out, !.err = err]}
    /\ trace' = Log(c.req, "child_exit")
    /\ UNCHANGED <<kind, filename, pc, temp_dir, temp_path, result, response,
                   loop, dirs, files, cli>>

\* lines 73-97: subprocess.run returns the CompletedProcess and the result is
\* classified, or collecting the streams raises (undecodable output) and the
\* except clause answers
ExecCollect(r, c, fault) ==
    /\ pc[r] = "waiting" /\ loop \in {r, 0}
    /\ c \in ChildOf(r) /\ ChildFinished(c)
    /\ child' = IF c.st = "exited" THEN child \ {c} ELSE child
    /\ result' = [result EXCEPT ![r] =
           IF fault THEN OnFault("collect") ELSE Returned(Classify(c.rc, c.out, c.err))]
    /\ pc' = [pc EXCEPT ![r] = "returning"]
    /\ loop' = r
    /\ trace' = Log(r, IF fault THEN "collect_fault" ELSE "collect")
    /\ UNCHANGED <<kind, filename, temp_dir, temp_path, response, dirs, files, cli>>

\* -------------------------------------------- execute_script called directly
\* A caller awaits api_server.execute_script(path) on the event loop
DirectBegin(r, path) ==
    /\ pc[r] = "new" /\ CanRun(r)
    /\ kind' = [kind EXCEPT ![r] = "direct"]
    /\ temp_path' = [temp_path EXCEPT ![r] = Some(path)]
    /\ pc' = [pc EXCEPT ![r] = "exec"]
    /\ loop' = r
    /\ UNCHANGED <<filename, temp_dir, result, response, trace, dirs, files, child, cli>>

\* The caller has the value execute_script returned (or its exception)
DirectReturn(r) ==
    /\ pc[r] = "returning" /\ CanRun(r)
    /\ kind[r] = "direct"
    /\ pc' = [pc EXCEPT ![r] = "done"]
    /\ loop' = 0
    /\ UNCHANGED <<kind, filename, temp_dir, temp_path, result, response, trace,
                   dirs, files, child, cli>>

\* An except clause that logs and lets the fault out
CliOnFaultReraise(what) == Raised

\* script_executor.execute_script, lines 54-56: except Exception
CliOnFault(what) == Returned(NoneVal)

\* script_executor.execute_script, lines 32-33 and 47-49: FileNotFoundError
CliOnMissing(script_path) == Returned(NoneVal)

\* script_executor.execute_script as a function of what it finds at the path
\* and of what subprocess.run does; a missing interpreter is a
\* FileNotFoundError too and takes the first except clause.
cli_execute_script(script_path, exists, run) ==
    IF run.kind = "check_fault" THEN CliOnFault("check")
    ELSE IF ~exists THEN CliOnMissing(script_path)
    ELSE IF run.kind = "spawn_fault" THEN CliOnMissing(script_path)
    ELSE IF run.kind = "collect_fault" THEN CliOnFault("collect")
    ELSE IF run.rc = 0 THEN Returned(Some(run.out))
    ELSE Returned(NoneVal)

\* api_server.execute_script as a function of the same two things
api_execute_script(script_path, exists, run) ==
    IF run.kind = "check_fault" THEN OnFault("check")
    ELSE IF ~exists
    THEN Returned(ExecutionResponse(FALSE, NoneVal, Some(NotFoundMessage(script_path))))
    ELSE IF run.kind = "spawn_fault" THEN OnFault("spawn")
    ELSE IF run.kind = "collect_fault" THEN OnFault("collect")
    ELSE Returned(Classify(run.rc, run.out, run.err))

\* Both executors are called on the same path with the same environment
ExecuteBoth(path, run) ==
    /\ ~cli.called
    /\ cli' = [called |-> TRUE, path |-> path, exists |-> Exists(path), run |-> run,
               api |-> api_execute_script(path, Exists(path), run),
               ret |-> cli_execute_script(path, Exists(path), run)]
    /\ UNCHANGED <<kind, filename, pc, temp_dir, temp_path, result, response, trace,
                   loop, dirs, files, child>>

Next ==
    \/ \E r \in Req : CodeBegin(r)
    \/ \E r \in Req, k \in {"code", "file"}, fn \in Filenames \cup {<<>>} : TempDirFails(r, k, fn)
    \/ \E r \in Req, ok \in BOOLEAN : CodeWrite(r, ok)
    \/ \E r \in Req : CodeReturn(r)
    \/ \E r \in Req, fn \in Filenames : FileReject(r, fn)
    \/ \E r \in Req, fn \in Filenames : FileBegin(r, fn)
    \/ \E r \in Req : HealthCheck(r)
    \/ \E r \in Req, fault \in BOOLEAN : ExecCheck(r, fault)
    \/ \E r \in Req, ok \in BOOLEAN : ExecSpawn(r, ok)
    \/ \E c \in child, rc \in ExitCodes, out \in Outs, err \in Errs : ChildExit(c, rc, out, err)
    \/ \E r \in Req, c \in child, fault \in BOOLEAN : ExecCollect(r, c, fault)
    \/ \E r \in Req, ok \in BOOLEAN : FileWrite(r, ok)
    \/ \E r \in Req : FileReturn(r)

Spec == Init /\ [][Next]_vars

\* The executor called directly, on a file system that holds some entries
InitExec ==
    /\ kind = [r \in Req |-> "none"]
    /\ filename = [r \in Req |-> <<>>]
    /\ pc = [r \in Req |-> "new"]
    /\ temp_dir = [r \in Req |-> NoneVal]
    /\ temp_path = [r \in Req |-> NoneVal]
    /\ result = [r \in Req |-> NoResult]
    /\ response = [r \in Req |-> NoResponse]
    /\ trace = [r \in Req |-> <<>>]
    /\ loop = 0
    /\ dirs \in { {}, {Resolve(DPath)} }
    /\ files \in { <<>>, [q \in {Resolve(XPath)} |-> 0] }
    /\ child = {}
    /\ cli = NoCli

NextExec ==
    \/ \E r \in Req, path \in DirectPaths : DirectBegin(r, path)
    \/ \E r \in Req, fault \in BOOLEAN : ExecCheck(r, fault)
    \/ \E r \in Req, ok \in BOOLEAN : ExecSpawn(r, ok)
    \/ \E c \in child, rc \in ExitCodes, out \in Outs, err \in Errs : ChildExit(c, rc, out, err)
    \/ \E r \in Req, c \in child, fault \in BOOLEAN : ExecCollect(r, c, fault)
    \/ \E r \in Req : DirectReturn(r)

SpecExec == InitExec /\ [][NextExec]_vars

\* The two executors side by side
NextBoth == \E path \in DirectPaths, run \in RunOutcomes : ExecuteBoth(path, run)

SpecBoth == InitExec /\ [][NextBoth]_vars

\* ====================================================================
\* Properties
\* ====================================================================
Handled(r) == kind[r] \in {"code", "file"}
InFlight(r) == pc[r] \notin {"new", "done"}
Has(t, ev) == \E i \in 1..Len(t) : t[i] = ev
Precedes(t, a, b) ==
    \A i \in 1..Len(t) : t[i] = b => \E j \in 1..(i - 1) : t[j] = a

\* C1: every temporary directory that exists belongs to a call that is still
\* inside its with-block; a call that has returned, on any exit path, holds
\* none, and once no call is running no temporary directory is left.
C1_NoLeakedTempDir ==
    /\ dirs = {Resolve(temp_dir[r].val) : r \in {q \in Req : temp_dir[q].some}}
    /\ \A r \in Req : temp_dir[r].some => InFlight(r)
    /\ (\A r \in Req : ~InFlight(r)) => dirs = {}

\* C1 witness: two calls have returned, one with a result and one with the
\* 500 of a failed write, and nothing is left.
C1_Witness ==
    /\ \A r \in Req : pc[r] = "done"
    /\ \E r \in Req : Handled(r) /\ response[r].status = 200
    /\ \E r \in Req : kind[r] = "code" /\ response[r].status = 500
          /\ response[r].body = Detail("Failed to process code")
    /\ dirs = {}

\* What the claim C2 expects of a child that has exited
Expected(c) ==
    IF c.rc = 0
    THEN [success |-> TRUE, output |-> Some(c.out), error |-> NoneVal]
    ELSE [success |-> FALSE, output |-> NoneVal, error |-> Some(c.err)]

\* C2 as stated: whenever the child of a staged /execute call has exited, the
\* call's result is success with exactly the captured standard output for
\* code 0 and failure with exactly the captured standard error otherwise,
\* and the handler returns that result with status 200.
C2_AsStated ==
    [][\A r \in Req :
        /\ (kind[r] = "code" /\ pc[r] = "waiting" /\ pc'[r] = "returning")
              => \E c \in ChildOf(r) : result'[r] = Returned(Expected(c))
        /\ (kind[r] = "code" /\ pc[r] = "returning" /\ pc'[r] = "done")
              => response'[r] = Reply(200, result[r].value)]_vars

\* C2 amended: the same, when subprocess.run returns the CompletedProcess,
\* that is when collecting the child's streams raises no fault.
C2_ExitCodeDecides ==
    [][\A r \in Req :
        /\ (kind[r] = "code" /\ pc[r] = "waiting" /\ pc'[r] = "returning"
              /\ Has(trace'[r], "collect"))
              => \E c \in ChildOf(r) : result'[r] = Returned(Expected(c))
        /\ (kind[r] = "code" /\ pc[r] = "returning" /\ pc'[r] = "done")
              => response'[r] = Reply(200, result[r].value)]_vars

\* C2 witness: one /execute call answered success with the captured output,
\* another answered failure with the captured error text.
C2_Witness ==
    /\ \E r \in Req : kind[r] = "code" /\ pc[r] = "done"
          /\ response[r] = Reply(200, [success |-> TRUE, output |-> Some(<<"o">>), error |-> NoneVal])
    /\ \E r \in Req : kind[r] = "code" /\ pc[r] = "done"
          /\ response[r] = Reply(200, [success |-> FALSE, output |-> NoneVal, error |-> Some(<<"e">>)])

\* C3: whatever api_server.execute_script returns, on every path, has
\* exactly one of output and error set: output with success, error without.
C3_ExactlyOne ==
    \A r \in Req : pc[r] \in {"returning", "done"} =>
        /\ ~result[r].raised
        /\ LET v == result[r].value IN
           /\ v.success => (v.output.some /\ ~v.error.some)
           /\ ~v.success => (v.error.some /\ ~v.output.some)

\* C3 witness: one call took the missing-script path, another exited 0 with
\* empty output.
C3_Witness ==
    /\ \E r \in Req : pc[r] = "done" /\ Has(trace[r], "not_found")
    /\ \E r \in Req : pc[r] = "done" /\ Has(trace[r], "collect")
          /\ result[r].value.success /\ result[r].value.output = Some(<<>>)

\* The suffix test, stated on the characters
LacksPySuffix(fn) ==
    ~(/\ Len(fn) >= 3
      /\ fn[Len(fn) - 2] = "." /\ fn[Len(fn) - 1] = "p" /\ fn[Len(fn)] = "y")

\* C4: an upload whose name lacks the exact suffix ".py" is answered 400 in
\* the step that takes it up, and that step leaves the temporary
\* directories, the files and the child processes as they were.
C4_RejectedBeforeStaging ==
    [][\A r \in Req :
        (pc[r] = "new" /\ pc'[r] # "new" /\ kind'[r] = "file"
            /\ LacksPySuffix(filename'[r]))
        => /\ pc'[r] = "done"
           /\ response'[r].status = 400
           /\ ~temp_dir'[r].some /\ ~temp_path'[r].some
           /\ dirs' = dirs /\ files' = files /\ child' = child]_vars

\* C4 witness: "a.PY" and "a.py.txt" were each answered 400.
C4_Witness ==
    /\ \E r \in Req : filename[r] = <<"a", ".", "P", "Y">> /\ response[r].status = 400
    /\ \E r \in Req : filename[r] = <<"a", ".", "p", "y", ".", "t", "x", "t">>
          /\ response[r].status = 400

\* C5 as stated: the script paths of any two calls in flight differ, and
\* each lies inside the directory its own call allocated.
C5_IsolatedPaths ==
    \A r \in Req : (Handled(r) /\ temp_path[r].some) =>
        /\ IsPrefix(Resolve(temp_dir[r].val), Resolve(temp_path[r].val))
        /\ \A q \in Req \ {r} : (Handled(q) /\ temp_path[q].some) =>
               Resolve(temp_path[q].val) # Resolve(temp_path[r].val)

\* C6: within a call the script file is written before the child is spawned,
\* the child has terminated before its output is collected, and while a
\* child runs its call waits, with its directory and script file in place.
C6_Order ==
    /\ \A r \in Req :
        /\ Handled(r) => Precedes(trace[r], "write", "spawn")
        /\ Precedes(trace[r], "spawn", "child_exit")
        /\ Precedes(trace[r], "child_exit", "collect")
        /\ Precedes(trace[r], "child_exit", "collect_fault")
    /\ \A c \in child :
        /\ pc[c.req] = "waiting"
        /\ Handled(c.req) =>
            /\ temp_dir[c.req].some /\ Resolve(temp_dir[c.req].val) \in dirs
            /\ Resolve(temp_path[c.req].val) \in DOMAIN files
            /\ c.script = c.req

\* C6 witness: a call has written, spawned, seen its child exit and
\* collected, in that order, and still holds its directory.
C6_Witness ==
    \E r \in Req :
        /\ trace[r] = <<"mkdtemp", "write", "found", "spawn", "child_exit", "collect">>
        /\ Resolve(temp_dir[r].val) \in dirs

FaultEvent(k) ==
    CASE k = "check" -> "check_fault"
      [] k = "spawn" -> "spawn_fault"
      [] k = "collect" -> "collect_fault"

\* C7: api_server.execute_script never raises: every fault, at the check, at
\* the spawn or while collecting, comes back as a failure result carrying
\* the fault's text, and a call spawns at most one child.
C7_NeverRaises ==
    \A r \in Req :
        /\ Cardinality({i \in 1..Len(trace[r]) : trace[r][i] = "spawn"}) <= 1
        /\ Cardinality(ChildOf(r)) <= 1
        /\ pc[r] \in {"returning", "done"} =>
            /\ ~result[r].raised
            /\ result[r].value.success \in BOOLEAN
            /\ \A k \in {"check", "spawn", "collect"} :
                 Has(trace[r], FaultEvent(k)) =>
                   result[r].value =
                     [success |-> FALSE, output |-> NoneVal, error |-> Some(<<"fault: ", k>>)]

\* C7 witness: a spawn fault and a collect fault were both returned as
\* failure results.
C7_Witness ==
    /\ \E r \in Req : pc[r] = "done" /\ Has(trace[r], "spawn_fault") /\ ~result[r].raised
    /\ \E r \in Req : pc[r] = "done" /\ Has(trace[r], "collect_fault") /\ ~result[r].raised

NotFoundResult(path) ==
    Returned([success |-> FALSE, output |-> NoneVal,
              error |-> Some(<<"Script not found: ">> \o path)])

\* C8 as stated: a path that is not a regular file (nothing there, or a
\* directory) gets the not-found failure result and no child is spawned.
C8_AsStated ==
    \A r \in Req :
        (temp_path[r].some /\ ~Has(trace[r], "check_fault")
            /\ Resolve(temp_path[r].val) \notin DOMAIN files)
        => /\ pc[r] \notin {"spawning", "waiting"}
           /\ pc[r] \in {"returning", "done"} =>
                (result[r] = NotFoundResult(temp_path[r].val) /\ ~Has(trace[r], "spawn"))

\* C8 amended: a path at which nothing exists gets the not-found failure
\* result, whose message ends with the path, and no child is spawned.
C8_MissingPath ==
    \A r \in Req :
        (pc[r] \in {"returning", "done"} /\ ~Has(trace[r], "check_fault")
            /\ Resolve(temp_path[r].val) \notin DOMAIN files
            /\ Resolve(temp_path[r].val) \notin dirs \cup StaticDirs)
        => /\ result[r] = NotFoundResult(temp_path[r].val)
           /\ ~Has(trace[r], "spawn") /\ ~Has(trace[r], "spawn_fault")
           /\ ChildOf(r) = {}

\* C8 witness: a call on a path with nothing at it has returned.
C8_Witness ==
    \E r \in Req : pc[r] = "done" /\ temp_path[r] = Some(NPath)
        /\ result[r] = NotFoundResult(NPath)

InternalFault(c) ==
    \/ c.run.kind = "check_fault"
    \/ c.exists /\ c.run.kind \in {"spawn_fault", "collect_fault"}

\* C9 as stated: the service executor returns a structured result and never
\* raises, the standalone one returns the output or None and raises on
\* internal faults.
C9_AsStated ==
    cli.called =>
        /\ ~cli.api.raised
        /\ cli.ret.raised <=> InternalFault(cli)

\* C9 amended: the service executor returns a structured result and never
\* raises; the standalone one never raises either: it returns the captured
\* output exactly when the service one reports success, and None otherwise,
\* internal faults included.
C9_BothReturn ==
    cli.called =>
        /\ ~cli.api.raised
        /\ cli.api.value.success \in BOOLEAN
        /\ ~cli.ret.raised
        /\ cli.ret.value =
             IF cli.exists /\ cli.run.kind = "completed" /\ cli.run.rc = 0
             THEN Some(cli.run.out) ELSE NoneVal
        /\ cli.api.value.success <=> cli.ret.value.some
        /\ cli.api.value.success => cli.api.value.output = cli.ret.value

\* C9 witness: both were called on an existing script and collecting the
\* output raised; the standalone executor returned None.
C9_Witness ==
    /\ cli.called /\ cli.exists /\ cli.run.kind = "collect_fault"
    /\ cli.ret = Returned(NoneVal)
    /\ ~cli.api.value.success

\* C10: at most one child process exists at any time, and while it runs no
\* handler takes a step and no request is answered: the only thing that can
\* happen is that the child terminates.
C10_Serialized ==
    /\ [](Cardinality(child) <= 1)
    /\ [][(\E c \in child : c.st = "running")
            => (pc' = pc /\ response' = response /\ loop' = loop
                /\ dirs' = dirs /\ files' = files)]_vars

\* C10 witness: a child is running while another request waits, at its read
\* or to be taken up.
C10_Witness ==
    /\ \E c \in child : c.st = "running"
    /\ \E r \in Req : pc[r] \in {"reading", "new"} /\ loop # r
    /\ loop # 0

====
